---- MODULE Spec2Model ----
(***************************************************************************)
(* ImageToTrack: a binary edge grid is labelled into connected components, *)
(* the components are linked by the minimum spanning tree of their         *)
(* shortest distances, the links are rasterized into the grid, and the     *)
(* connected grid is turned into one ordered track.                        *)
(*                                                                         *)
(* Grids are functions row -> (column -> value), indexed from 0 as the     *)
(* lists of the source are.  Points are pairs <<row, col>>.                *)
(***************************************************************************)
EXTENDS Integers, Sequences, FiniteSets, TLC

VARIABLES
    pc,               \* position in the script / in the function under study
    err,              \* "none", or the exception that ended the run
    edges,            \* the binary edge image
    map,              \* component-number grid; drawn into, then called img
    tags,             \* equivalence dictionary: id -> set of ids (keys 1..n)
    round,            \* how many times consolidate+trim have been applied
    once,             \* the dictionary after the first consolidate+trim
    components,       \* insertion-ordered dictionary: <<[key, coords], ...>>
    adjacency,        \* matrix of [start, end, dist] between components
    pair,             \* loop position <<i, j>> of build_shortest_dist_matrix
    visited,          \* dist_to_MST: visited flags per vertex
    numEdges,         \* dist_to_MST: edges chosen so far
    MST,              \* dist_to_MST: chosen adjacency entries
    picked,           \* the <<x, y>> whose entry each element of MST is
    edgeIdx,          \* draw_connections: edges drawn so far
    start,            \* result of find_start
    tree,             \* BFS tree: point -> [children, depth, farthestLeaf, parent]
    maxDepth,         \* maximum depth reached by BFS
    stack2,           \* result of postorder
    stack,            \* tree_to_track: explicit stack
    goingUp,          \* tree_to_track
    existsChildAbove, \* tree_to_track
    TRACK             \* tree_to_track: emitted coordinates

vars == <<pc, err, edges, map, tags, round, once, components, adjacency, pair,
          visited, numEdges, MST, picked, edgeIdx, start, tree, maxDepth,
          stack2, stack, goingUp, existsChildAbove, TRACK>>

labelVars == <<edges, map, tags, round, once, components>>
linkVars  == <<adjacency, pair, visited, numEdges, MST, picked, edgeIdx>>
treeVars  == <<start, tree, maxDepth, stack2>>
trackVars == <<stack, goingUp, existsChildAbove, TRACK>>

\* ---------------------------------------------------------------- bounds

\* Height and width of the grids of the pipeline (outer ring included), and
\* the largest number of edge pixels of an input grid.
Rows == 5
Cols == 5
MaxOn == 5
\* The same for the grids on which the labelling alone is studied.
TagRows == 4
TagCols == 7
TagMaxOn == 5
\* dist_to_MST alone: up to MaxComp components, distances 1..MaxDist.
MaxComp == 4
MaxDist == 3
\* draw_connections alone: end points with coordinates 0..MaxCoord.
MaxCoord == 5
\* find_start alone: grids of 3..StartRows by 3..StartCols with at most
\* StartMaxOn pixels on, anywhere.
StartRows == 6
StartCols == 6
StartMaxOn == 2
\* BFS to tree_to_track alone: grids of TrackRows by TrackCols whose edge
\* pixels, at most TrackMaxOn, form one 8-connected region.
TrackRows == 5
TrackCols == 7
TrackMaxOn == 5

\* ---------------------------------------------------------------- helpers

\* None; a tuple, so that it can be compared with points
None == <<>>

\* len() of a list modelled as a function on 0..n-1
Len0(f) == Cardinality(DOMAIN f)

Max(a, b) == IF a > b THEN a ELSE b
Min(a, b) == IF a < b THEN a ELSE b
Abs(a) == IF a < 0 THEN -a ELSE a

SetMin(S) == CHOOSE x \in S : \A y \in S : x <= y

\* list(s) for a set of small integers: CPython iterates such a set in
\* ascending order
RECURSIVE SetToList(_)
SetToList(S) ==
    IF S = {} THEN <<>>
    ELSE LET m == SetMin(S) IN <<m>> \o SetToList(S \ {m})

\* next(iter(s))
IterFirst(S) == SetMin(S)

SeqToSet(s) == {s[k] : k \in 1..Len(s)}

ZeroGrid(H, W) == [r \in 0..(H - 1) |-> [c \in 0..(W - 1) |-> 0]]

\* The grid of height H and width W whose non-zero pixels are S
GridOf(H, W, S) ==
    [r \in 0..(H - 1) |-> [c \in 0..(W - 1) |-> IF <<r, c>> \in S THEN 1 ELSE 0]]

OnPixels(g) == {p \in (DOMAIN g) \X (DOMAIN g[0]) : g[p[1]][p[2]] # 0}

InnerCells(H, W) == (1..(H - 2)) \X (1..(W - 2))

\* -------------------------------------------- ConnectedComponentTwoPass.py

\* One neighbour `pix` of the pixel under the scan: st = [cur, tags], where
\* cur is map[row][col]
LabelNeighbor(st, pix) ==
    IF pix # 0
    THEN IF st.cur = 0
         THEN [st EXCEPT !.cur = pix]
         ELSE IF pix # st.cur
              THEN [st EXCEPT !.tags[st.cur] = @ \cup {pix}]
              ELSE st
    ELSE st

\* The body of the scan loop for one pixel: st = [map, tags, segment]
LabelPixel(e, st, row, col) ==
    IF e[row][col] # 0
    THEN LET m == st.map
             s0 == [cur |-> 0, tags |-> st.tags]
             s1 == LabelNeighbor(s0, m[row - 1][col - 1])
             s2 == LabelNeighbor(s1, m[row - 1][col])
             s3 == LabelNeighbor(s2, m[row - 1][col + 1])
             s4 == LabelNeighbor(s3, m[row][col - 1])
             fresh == s4.cur = 0
             cur == IF fresh THEN st.segment ELSE s4.cur
             seg == IF fresh THEN st.segment + 1 ELSE st.segment
             tg == IF cur \in DOMAIN s4.tags THEN s4.tags ELSE Append(s4.tags, {})
         IN [map |-> [m EXCEPT ![row][col] = cur], tags |-> tg, segment |-> seg]
    ELSE st

\* The inner loop of the scan: row `row` from column col on, up to
\* len(map[0]) - 2
RECURSIVE LabelRow(_, _, _, _)
LabelRow(e, st, row, col) ==
    IF col > Len0(st.map[0]) - 2 THEN st
    ELSE LabelRow(e, LabelPixel(e, st, row, col), row, col + 1)

\* The outer loop of the scan: from row `row` on, up to len(map) - 2
RECURSIVE LabelScan(_, _, _)
LabelScan(e, st, row) ==
    IF row > Len0(st.map) - 2 THEN st
    ELSE LabelScan(e, LabelRow(e, st, row, 1), row + 1)

number_connected_components(e) ==
    LET st == LabelScan(e, [map |-> ZeroGrid(Len0(e), Len0(e[0])),
                            tags |-> <<>>, segment |-> 1], 1)
    IN [map |-> st.map, tags |-> st.tags]

\* ConsolidateWhile without line 131: the extended list is not stored
RECURSIVE ConsolidateWhileNoStore(_, _, _, _)
ConsolidateWhileNoStore(tg, compNum, lst, index) ==
    IF index < Len(lst)
    THEN LET equiv == lst[index + 1]
             children == (tg[equiv] \ {compNum}) \ SeqToSet(lst)
         IN ConsolidateWhileNoStore([tg EXCEPT ![equiv] = {compNum}], compNum,
                                    lst \o SetToList(children), index + 1)
    ELSE tg

\* The while loop of consolidate_tags for one compNum; index counts from 0
RECURSIVE ConsolidateWhile(_, _, _, _)
ConsolidateWhile(tg, compNum, lst, index) ==
    IF index < Len(lst)
    THEN LET equiv == lst[index + 1]
             children == (tg[equiv] \ {compNum}) \ SeqToSet(lst)
         IN ConsolidateWhile([tg EXCEPT ![equiv] = {compNum}], compNum,
                             lst \o SetToList(children), index + 1)
    ELSE [tg EXCEPT ![compNum] = SeqToSet(lst)]

\* The for loop of consolidate_tags from key compNum on (keys are 1..n, in
\* the order they were inserted)
RECURSIVE ConsolidateFrom(_, _)
ConsolidateFrom(tg, compNum) ==
    IF compNum > Len(tg) THEN tg
    ELSE ConsolidateFrom(ConsolidateWhile(tg, compNum, SetToList(tg[compNum]), 0),
                         compNum + 1)

consolidate_tags(tg) == ConsolidateFrom(tg, 1)

\* TrimKey with the comparison turned round
TrimKeyBelow(tg, key) ==
    IF Cardinality(tg[key]) > 0 /\ key < IterFirst(tg[key])
    THEN [tg EXCEPT ![key] = {}]
    ELSE tg

TrimKey(tg, key) ==
    IF Cardinality(tg[key]) > 0 /\ key > IterFirst(tg[key])
    THEN [tg EXCEPT ![key] = {}]
    ELSE tg

RECURSIVE TrimFrom(_, _)
TrimFrom(tg, key) ==
    IF key > Len(tg) THEN tg ELSE TrimFrom(TrimKey(tg, key), key + 1)

trim_tags(tg) == TrimFrom(tg, 1)

\* Position of key in the insertion-ordered dictionary d, 0 if absent
KeyIndex(d, key) ==
    IF \E k \in 1..Len(d) : d[k].key = key
    THEN CHOOSE k \in 1..Len(d) : d[k].key = key
    ELSE 0

\* ListPixel without lines 214-216: the number of the pixel is the key
ListPixelNoParent(m, tg, comps, row, col) ==
    IF m[row][col] # 0
    THEN LET key == m[row][col]
             at == KeyIndex(comps, key)
         IN IF at # 0
            THEN [comps EXCEPT ![at].coords = Append(@, <<row, col>>)]
            ELSE Append(comps, [key |-> key, coords |-> << <<row, col>> >>])
    ELSE comps

\* The body of the scan of list_component_coords for one pixel
ListPixel(m, tg, comps, row, col) ==
    IF m[row][col] # 0
    THEN LET key0 == m[row][col]
             s == tg[key0]
             key == IF Cardinality(s) # 0 THEN IterFirst(s) ELSE key0
             at == KeyIndex(comps, key)
         IN IF at # 0
            THEN [comps EXCEPT ![at].coords = Append(@, <<row, col>>)]
            ELSE Append(comps, [key |-> key, coords |-> << <<row, col>> >>])
    ELSE comps

\* The inner loop of the scan over one row: st = [components, col]
RECURSIVE ListRow(_, _, _, _)
ListRow(m, tg, row, st) ==
    IF st.col >= Len0(m[0]) THEN st.components
    ELSE ListRow(m, tg, row,
                 [components |-> ListPixel(m, tg, st.components, row, st.col),
                  col |-> st.col + 1])

\* The outer loop of the scan: st = [components, row]
RECURSIVE ListScan(_, _, _)
ListScan(m, tg, st) ==
    IF st.row >= Len0(m) THEN st.components
    ELSE ListScan(m, tg,
                  [components |-> ListRow(m, tg, st.row,
                                          [components |-> st.components, col |-> 0]),
                   row |-> st.row + 1])

list_component_coords(m, tg) == ListScan(m, tg, [components |-> <<>>, row |-> 0])

\* ---------------------------------------------------- ConnectComponents.py

\* Squared Euclidean distance.  The kd-tree reports the Euclidean distance;
\* the code only compares distances, and squaring keeps their order.
Dist2(p, q) == (p[1] - q[1]) * (p[1] - q[1]) + (p[2] - q[2]) * (p[2] - q[2])

\* tree.query(p, k=1) on the kd-tree of coordsJ: the distance of the nearest
\* point of coordsJ
QueryDist(p, coordsJ) ==
    LET D == {Dist2(p, coordsJ[k]) : k \in 1..Len(coordsJ)}
    IN CHOOSE d \in D : \A e \in D : d <= e

\* np.argmin(distances): the first index (from 1) of the smallest distance
ArgMin(coordsI, coordsJ) ==
    CHOOSE k \in 1..Len(coordsI) :
        /\ \A h \in 1..Len(coordsI) :
              QueryDist(coordsI[k], coordsJ) <= QueryDist(coordsI[h], coordsJ)
        /\ \A h \in 1..(k - 1) :
              QueryDist(coordsI[h], coordsJ) > QueryDist(coordsI[k], coordsJ)

\* The points the kd-tree of coordsJ may report as nearest to p: which of
\* several equidistant points it reports is the index's own business
QueryPoints(p, coordsJ) ==
    {coordsJ[k] : k \in {h \in 1..Len(coordsJ) : Dist2(p, coordsJ[h]) = QueryDist(p, coordsJ)}}

\* The position after <<i, j>> in `for i ...: for j in range(i+1, n)`,
\* None when the loops are over
NextPair(i, j, n) ==
    IF j + 1 < n THEN <<i, j + 1>>
    ELSE IF i + 2 < n THEN <<i + 1, i + 2>>
    ELSE None

\* Stands for sys.maxsize (2^63 - 1), which is above every distance; TLC's
\* integers end at 2^31 - 1
MaxSize == 2147483647

\* The two for loops of one round of dist_to_MST, from position k of the
\* row-major scan of (i, j) on: st = [min, x, y]
RECURSIVE MSTScan(_, _, _, _)
MSTScan(adj, vis, st, k) ==
    LET numVertices == Len0(adj)
        i == k \div numVertices
        j == k % numVertices
    IN IF k >= numVertices * numVertices THEN st
       ELSE IF vis[i] /\ ~vis[j] /\ st.min > adj[i][j].dist
            THEN MSTScan(adj, vis, [min |-> adj[i][j].dist, x |-> i, y |-> j], k + 1)
            ELSE MSTScan(adj, vis, st, k + 1)

\* The scan with the test of visited[j] left out
RECURSIVE MSTScanRevisits(_, _, _, _)
MSTScanRevisits(adj, vis, st, k) ==
    LET numVertices == Len0(adj)
        i == k \div numVertices
        j == k % numVertices
    IN IF k >= numVertices * numVertices THEN st
       ELSE IF vis[i] /\ i # j /\ st.min > adj[i][j].dist
            THEN MSTScanRevisits(adj, vis, [min |-> adj[i][j].dist, x |-> i, y |-> j], k + 1)
            ELSE MSTScanRevisits(adj, vis, st, k + 1)

MSTChoiceRevisits(adj, vis) ==
    MSTScanRevisits(adj, vis, [min |-> MaxSize, x |-> 0, y |-> 0], 0)

\* The scan with min never lowered: the last crossing pair wins
RECURSIVE MSTScanLast(_, _, _, _)
MSTScanLast(adj, vis, st, k) ==
    LET numVertices == Len0(adj)
        i == k \div numVertices
        j == k % numVertices
    IN IF k >= numVertices * numVertices THEN st
       ELSE IF vis[i] /\ ~vis[j] /\ st.min > adj[i][j].dist
            THEN MSTScanLast(adj, vis, [min |-> st.min, x |-> i, y |-> j], k + 1)
            ELSE MSTScanLast(adj, vis, st, k + 1)

MSTChoiceLast(adj, vis) ==
    MSTScanLast(adj, vis, [min |-> MaxSize, x |-> 0, y |-> 0], 0)

MSTChoice(adj, vis) == MSTScan(adj, vis, [min |-> MaxSize, x |-> 0, y |-> 0], 0)

\* The for loop of draw_connections over x, from x on
RECURSIVE DrawLine(_, _, _, _, _, _, _, _, _)
DrawLine(m, slopedVertically, x, x2, y, error, dx, dy, ystep) ==
    IF x > x2 THEN m
    ELSE LET m1 == IF slopedVertically
                   THEN [m EXCEPT ![y][x] = 255]
                   ELSE [m EXCEPT ![x][y] = 255]
             e1 == error - Abs(dy)
         IN IF e1 < 0
            THEN DrawLine(m1, slopedVertically, x + 1, x2, y + ystep, e1 + dx, dx, dy, ystep)
            ELSE DrawLine(m1, slopedVertically, x + 1, x2, y, e1, dx, dy, ystep)

\* InitialError without the halving
InitialErrorFull(dx) == dx

\* Line 211: error = int(dx / 2), for dx >= 0
InitialError(dx) == dx \div 2

\* YStep without the test of the direction
YStepUp(y1, y2) == 1

\* Line 212
YStep(y1, y2) == IF y1 < y2 THEN 1 ELSE -1

\* The body of the loop of draw_connections for one edge
DrawEdgeOn(m, edge) ==
    LET x1a == edge.start[1]
        y1a == edge.start[2]
        x2a == edge.end[1]
        y2a == edge.end[2]
        slopedVertically == Abs(y2a - y1a) > Abs(x2a - x1a)
        \* rotate if vertically sloped
        x1b == IF slopedVertically THEN y1a ELSE x1a
        y1b == IF slopedVertically THEN x1a ELSE y1a
        x2b == IF slopedVertically THEN y2a ELSE x2a
        y2b == IF slopedVertically THEN x2a ELSE y2a
        \* swap the points to keep things positive
        swap == x1b > x2b
        x1 == IF swap THEN x2b ELSE x1b
        x2 == IF swap THEN x1b ELSE x2b
        y1 == IF swap THEN y2b ELSE y1b
        y2 == IF swap THEN y1b ELSE y2b
        dx == x2 - x1
        dy == y2 - y1
        error == InitialError(dx)
        ystep == YStep(y1, y2)
    IN DrawLine(m, slopedVertically, x1, x2, y1, error, dx, dy, ystep)

\* The loop of the script that brightens the image
BrightenImg(img) ==
    [r \in DOMAIN img |-> [c \in DOMAIN img[r] |-> IF img[r][c] > 0 THEN 255 ELSE img[r][c]]]

\* ----------------------------------------------------- ConnectedToTrack.py

\* The value find_start returns when no pixel is on: -1, in a tuple so that
\* it can be compared with points
Sentinel == <<-1>>

inBounds(row, col, ROW, COL) == (row >= 0) /\ (row < ROW) /\ (col >= 0) /\ (col < COL)

ROWDELTA == <<-1, -1, -1, 0, 0, 1, 1, 1>>
COLDELTA == <<-1, 0, 1, -1, 1, -1, 0, 1>>

\* A fresh Node(pt)
NewNode == [children |-> <<>>, depth |-> -1, farthestLeaf |-> -1, parent |-> None]

\* The for loop of BFS over the 8 neighbours of curr, from neighbour i on:
\* st = [tree, q, maxDepth].  The pixels visited are those with a node.
RECURSIVE BFSNeighbors(_, _, _, _)
BFSNeighbors(img, st, curr, i) ==
    IF i >= 8 THEN st
    ELSE LET row == curr[1] + ROWDELTA[i + 1]
             col == curr[2] + COLDELTA[i + 1]
             adjPoint == <<row, col>>
         IN IF inBounds(row, col, Len0(img), Len0(img[0]))
               /\ img[row][col] > 0
               /\ adjPoint \notin DOMAIN st.tree
            THEN LET d == st.tree[curr].depth + 1
                     node == [NewNode EXCEPT !.depth = d, !.parent = curr]
                     t1 == st.tree @@ (adjPoint :> node)
                     t2 == [t1 EXCEPT ![curr].children = Append(@, adjPoint)]
                 IN BFSNeighbors(img,
                                 [tree |-> t2, q |-> Append(st.q, adjPoint),
                                  maxDepth |-> Max(st.maxDepth, d)],
                                 curr, i + 1)
            ELSE BFSNeighbors(img, st, curr, i + 1)

\* The while loop of BFS
RECURSIVE BFSWhile(_, _)
BFSWhile(img, st) ==
    IF Len(st.q) = 0 THEN st
    ELSE BFSWhile(img, BFSNeighbors(img, [st EXCEPT !.q = Tail(@)], Head(st.q), 0))

\* BFS(img, start) for a start that is a point: [tree, maxDepth]; the root is start
BFS(img, s) ==
    LET st == BFSWhile(img, [tree |-> (s :> [NewNode EXCEPT !.depth = 0]),
                             q |-> <<s>>, maxDepth |-> 0])
    IN [tree |-> st.tree, maxDepth |-> st.maxDepth]

\* The while loop of postorder: stk is `stack`, out is `stack2`
RECURSIVE PostorderWhile(_, _, _)
PostorderWhile(tr, stk, out) ==
    IF Len(stk) = 0 THEN out
    ELSE LET curr == stk[Len(stk)]
         IN PostorderWhile(tr, SubSeq(stk, 1, Len(stk) - 1) \o tr[curr].children,
                           Append(out, curr))

postorder(tr, root) == PostorderWhile(tr, <<root>>, <<>>)

Reverse(s) == [k \in 1..Len(s) |-> s[Len(s) + 1 - k]]

\* InsertDesc without reverse=True: x goes behind every element whose key is
\* at most its own
InsertAsc(tr, sorted, x) ==
    LET keep == {k \in 1..Len(sorted) : tr[sorted[k]].farthestLeaf <= tr[x].farthestLeaf}
        n == Cardinality(keep)
    IN SubSeq(sorted, 1, n) \o <<x>> \o SubSeq(sorted, n + 1, Len(sorted))

\* sorted(.., reverse=True) is stable: x goes behind every element whose
\* key is at least its own
InsertDesc(tr, sorted, x) ==
    LET keep == {k \in 1..Len(sorted) : tr[sorted[k]].farthestLeaf >= tr[x].farthestLeaf}
        n == Cardinality(keep)
    IN SubSeq(sorted, 1, n) \o <<x>> \o SubSeq(sorted, n + 1, Len(sorted))

RECURSIVE SortedDesc(_, _, _)
SortedDesc(tr, children, sorted) ==
    IF Len(children) = 0 THEN sorted
    ELSE SortedDesc(tr, Tail(children), InsertDesc(tr, sorted, Head(children)))

\* The for loop of sort_tree over the reversed stack, from position k on
RECURSIVE SortLoop(_, _, _)
SortLoop(tr, stk, k) ==
    IF k > Len(stk) THEN tr
    ELSE LET node == stk[k]
             t1 == IF Len(tr[node].children) = 0
                   THEN [tr EXCEPT ![node].farthestLeaf = 0]
                   ELSE tr
             t2 == [t1 EXCEPT ![node].children = SortedDesc(t1, t1[node].children, <<>>)]
             parent == t2[node].parent
         IN IF parent = None THEN t2
            ELSE SortLoop([t2 EXCEPT ![parent].farthestLeaf =
                                 Max(t2[node].farthestLeaf + 1, @)],
                          stk, k + 1)

sort_tree(tr, stk) == SortLoop(tr, Reverse(stk), 1)

\* Node.norm prints "r c"; the model keeps the two numbers it prints
norm(node) == <<node[1], node[2]>>

\* The first point of the sequence pts that is on in img, None if none is
RECURSIVE FirstOn(_, _)
FirstOn(img, pts) ==
    IF Len(pts) = 0 THEN None
    ELSE IF img[Head(pts)[1]][Head(pts)[2]] > 0 THEN Head(pts)
    ELSE FirstOn(img, Tail(pts))

\* range(a, b) and range(a, b, -1); RangeDownShort is range(a, b + 1, -1)
RangeUp(a, b) == [k \in 1..Max(b - a, 0) |-> a + k - 1]
RangeDownShort(a, b) == [k \in 1..Max(a - b - 1, 0) |-> a - k + 1]
RangeDown(a, b) == [k \in 1..Max(a - b, 0) |-> a - k + 1]

\* The while loop of find_start
RECURSIVE Spiral(_, _, _, _, _)
Spiral(img, k, l, m, n) ==
    IF ~(k < m /\ l < n) THEN Sentinel
    ELSE
    LET top == FirstOn(img, [i \in DOMAIN RangeUp(l, n) |-> <<k, RangeUp(l, n)[i]>>])
        k1 == k + 1
        right == FirstOn(img, [i \in DOMAIN RangeUp(k1, m) |-> <<RangeUp(k1, m)[i], n - 1>>])
        n1 == n - 1
        bottom == IF k1 < m
                  THEN FirstOn(img, [i \in DOMAIN RangeDown(n1 - 1, l - 1) |->
                                        <<m - 1, RangeDown(n1 - 1, l - 1)[i]>>])
                  ELSE None
        m1 == IF k1 < m THEN m - 1 ELSE m
        left == IF l < n1
                THEN FirstOn(img, [i \in DOMAIN RangeDown(m1 - 1, k1 - 1) |->
                                      <<RangeDown(m1 - 1, k1 - 1)[i], l>>])
                ELSE None
        l1 == IF l < n1 THEN l + 1 ELSE l
    IN IF top # None THEN top
       ELSE IF right # None THEN right
       ELSE IF bottom # None THEN bottom
       ELSE IF left # None THEN left
       ELSE Spiral(img, k1, l1, m1, n1)

find_start(img) == Spiral(img, 1, 1, Len0(img) - 1, Len0(img[0]) - 1)

\* Emits with the test left out: every visit appends
EmitsAlways(up, children) == TRUE

\* Emits appending on the way down only: a node the walk returns to is
\* never appended again
EmitsDescending(up, children) == ~up

\* Line 232: the coordinate of curr is appended to TRACK unless the walk is
\* moving upward to a node that still has children
Emits(up, children) == ~(up /\ Len(children) > 0)

\* UntouchedChild taking the child the walk enters next, children[-1]
LastChild(children) == children[Len(children)]

\* Line 228: the child recorded as the untouched one, children[0]
UntouchedChild(children) == children[1]

\* Line 251: the test that ends the walk early
TouchedAll(depth, maxD, childAbove) == depth = maxD - 1 /\ childAbove = None

\* ---------------------------------------------------------------- actions
\* ImageToTrack.py runs the functions in this order; pc names the next one.

Label ==
    /\ pc = "label"
    /\ LET r == number_connected_components(edges)
       IN /\ map' = r.map
          /\ tags' = r.tags
    /\ pc' = "consolidate"
    /\ UNCHANGED <<err, edges, round, once, components, linkVars, treeVars, trackVars>>

Consolidate ==
    /\ pc = "consolidate"
    /\ tags' = consolidate_tags(tags)
    /\ pc' = "trim"
    /\ UNCHANGED <<err, edges, map, round, once, components, linkVars, treeVars, trackVars>>

Trim ==
    /\ pc = "trim"
    /\ tags' = trim_tags(tags)
    /\ round' = round + 1
    /\ once' = IF round = 0 THEN tags' ELSE once
    /\ pc' = "list"
    /\ UNCHANGED <<err, edges, map, components, linkVars, treeVars, trackVars>>

\* consolidate_tags and trim_tags applied to their own result
Again ==
    /\ pc = "list"
    /\ round = 1
    /\ pc' = "consolidate"
    /\ UNCHANGED <<err, labelVars, linkVars, treeVars, trackVars>>

ListCoords ==
    /\ pc = "list"
    /\ components' = list_component_coords(map, tags)
    /\ pc' = "adjacency"
    /\ UNCHANGED <<err, edges, map, tags, round, once, linkVars, treeVars, trackVars>>

\* build_cKDTree and the first lines of build_shortest_dist_matrix
BuildBegin ==
    /\ pc = "adjacency"
    /\ LET size == Len(components)
       IN /\ adjacency' = ZeroGrid(size, size)
          /\ pair' = IF size >= 2 THEN <<0, 1>> ELSE None
          /\ pc' = IF size >= 2 THEN "pairs" ELSE "mst"
    /\ UNCHANGED <<err, labelVars, visited, numEdges, MST, picked, edgeIdx,
                   treeVars, trackVars>>

\* One round of the inner loop of build_shortest_dist_matrix
BuildPair ==
    /\ pc = "pairs"
    /\ LET i == pair[1]
           j == pair[2]
           coords == components[i + 1].coords
           coordsJ == components[j + 1].coords
           minDistanceIndex == ArgMin(coords, coordsJ)
           startPt == coords[minDistanceIndex]
       IN \E endPt \in QueryPoints(startPt, coordsJ) :
            LET entry == [start |-> startPt, end |-> endPt,
                          dist |-> QueryDist(startPt, coordsJ)]
            IN /\ adjacency' = [adjacency EXCEPT ![i][j] = entry, ![j][i] = entry]
               /\ pair' = NextPair(i, j, Len(components))
               /\ pc' = IF pair' = None THEN "mst" ELSE "pairs"
    /\ UNCHANGED <<err, labelVars, visited, numEdges, MST, picked, edgeIdx,
                   treeVars, trackVars>>

\* dist_to_MST up to its while loop; visited[0] = True on an empty list
\* raises IndexError
MSTBegin ==
    /\ pc = "mst"
    /\ LET numVertices == Len0(adjacency)
       IN IF numVertices = 0
          THEN /\ err' = "IndexError"
               /\ pc' = "crashed"
               /\ UNCHANGED <<visited, numEdges, MST, picked>>
          ELSE /\ visited' = [k \in 0..(numVertices - 1) |-> k = 0]
               /\ numEdges' = 0
               /\ MST' = <<>>
               /\ picked' = <<>>
               /\ pc' = "mst_loop"
               /\ err' = err
    /\ UNCHANGED <<labelVars, adjacency, pair, edgeIdx, treeVars, trackVars>>

\* One round of the while loop of dist_to_MST
MSTStep ==
    /\ pc = "mst_loop"
    /\ numEdges < Len0(adjacency) - 1
    /\ LET c == MSTChoice(adjacency, visited)
       IN /\ MST' = Append(MST, adjacency[c.x][c.y])
          /\ picked' = Append(picked, <<c.x, c.y>>)
          /\ visited' = [visited EXCEPT ![c.y] = TRUE]
    /\ numEdges' = numEdges + 1
    /\ UNCHANGED <<pc, err, labelVars, adjacency, pair, edgeIdx, treeVars, trackVars>>

MSTReturn ==
    /\ pc = "mst_loop"
    /\ ~(numEdges < Len0(adjacency) - 1)
    /\ pc' = "draw"
    /\ edgeIdx' = 0
    /\ UNCHANGED <<err, labelVars, adjacency, pair, visited, numEdges, MST, picked,
                   treeVars, trackVars>>

\* One round of the loop of draw_connections
DrawEdge ==
    /\ pc = "draw"
    /\ edgeIdx < Len(MST)
    /\ map' = DrawEdgeOn(map, MST[edgeIdx + 1])
    /\ edgeIdx' = edgeIdx + 1
    /\ UNCHANGED <<pc, err, edges, tags, round, once, components, adjacency, pair,
                   visited, numEdges, MST, picked, treeVars, trackVars>>

DrawReturn ==
    /\ pc = "draw"
    /\ ~(edgeIdx < Len(MST))
    /\ pc' = "brighten"
    /\ UNCHANGED <<err, labelVars, linkVars, treeVars, trackVars>>

Brighten ==
    /\ pc = "brighten"
    /\ map' = BrightenImg(map)
    /\ pc' = "find_start"
    /\ UNCHANGED <<err, edges, tags, round, once, components, linkVars, treeVars, trackVars>>

FindStart ==
    /\ pc = "find_start"
    /\ start' = find_start(map)
    /\ pc' = "BFS"
    /\ UNCHANGED <<err, labelVars, linkVars, tree, maxDepth, stack2, trackVars>>

\* BFS; start.r on the -1 of find_start raises AttributeError
RunBFS ==
    /\ pc = "BFS"
    /\ IF start = Sentinel
       THEN /\ err' = "AttributeError"
            /\ pc' = "crashed"
            /\ UNCHANGED <<tree, maxDepth>>
       ELSE /\ LET r == BFS(map, start)
               IN /\ tree' = r.tree
                  /\ maxDepth' = r.maxDepth
            /\ pc' = "postorder"
            /\ err' = err
    /\ UNCHANGED <<labelVars, linkVars, start, stack2, trackVars>>

Postorder ==
    /\ pc = "postorder"
    /\ stack2' = postorder(tree, start)
    /\ pc' = "sort_tree"
    /\ UNCHANGED <<err, labelVars, linkVars, start, tree, maxDepth, trackVars>>

SortTree ==
    /\ pc = "sort_tree"
    /\ tree' = sort_tree(tree, stack2)
    /\ stack2' = Reverse(stack2)
    /\ pc' = "tree_to_track"
    /\ UNCHANGED <<err, labelVars, linkVars, start, maxDepth, trackVars>>

\* tree_to_track up to its while loop
TrackBegin ==
    /\ pc = "tree_to_track"
    /\ TRACK' = <<>>
    /\ stack' = <<start>>
    /\ goingUp' = FALSE
    /\ existsChildAbove' = None
    /\ pc' = "track_loop"
    /\ UNCHANGED <<err, labelVars, linkVars, treeVars>>

\* One round of the while loop of tree_to_track
TrackStep ==
    /\ pc = "track_loop"
    /\ LET curr == stack[Len(stack)]
           children == tree[curr].children
           eca1 == IF curr = existsChildAbove THEN None ELSE existsChildAbove
           eca2 == IF Len(children) > 1 /\ eca1 = None
                   THEN UntouchedChild(children) ELSE eca1
       IN /\ existsChildAbove' = eca2
          /\ TRACK' = IF Emits(goingUp, children)
                      THEN Append(TRACK, norm(curr)) ELSE TRACK
          /\ IF Len(children) > 0
             THEN /\ stack' = Append(stack, children[Len(children)])
                  /\ tree' = [tree EXCEPT ![curr].children =
                                  SubSeq(children, 1, Len(children) - 1)]
                  /\ goingUp' = FALSE
                  /\ pc' = "track_loop"
             ELSE /\ stack' = SubSeq(stack, 1, Len(stack) - 1)
                  /\ tree' = tree
                  /\ goingUp' = TRUE
                  /\ pc' = IF TouchedAll(tree[curr].depth, maxDepth, eca2)
                              \/ Len(stack) = 1
                           THEN "done" ELSE "track_loop"
    /\ UNCHANGED <<err, labelVars, linkVars, start, maxDepth, stack2>>

\* --------------------------------------------------------- specifications

\* The binary images of height H and width W with a background outer ring
\* and at most n edge pixels
EdgeImages(H, W, n) ==
    {GridOf(H, W, S) : S \in {T \in SUBSET InnerCells(H, W) : Cardinality(T) <= n}}

InitRest ==
    /\ err = "none"
    /\ tags = <<>>
    /\ round = 0
    /\ once = <<>>
    /\ components = <<>>
    /\ pair = None
    /\ visited = <<>>
    /\ numEdges = 0
    /\ picked = <<>>
    /\ edgeIdx = 0
    /\ start = None
    /\ tree = <<>>
    /\ maxDepth = 0
    /\ stack2 = <<>>
    /\ stack = <<>>
    /\ goingUp = FALSE
    /\ existsChildAbove = None
    /\ TRACK = <<>>

\* The script ImageToTrack.py on an edge image
Init ==
    /\ pc = "label"
    /\ edges \in EdgeImages(Rows, Cols, MaxOn)
    /\ map = <<>>
    /\ adjacency = <<>>
    /\ MST = <<>>
    /\ InitRest

Next ==
    \/ Label \/ Consolidate \/ Trim \/ ListCoords
    \/ BuildBegin \/ BuildPair
    \/ MSTBegin \/ MSTStep \/ MSTReturn
    \/ DrawEdge \/ DrawReturn \/ Brighten
    \/ FindStart \/ RunBFS \/ Postorder \/ SortTree
    \/ TrackBegin \/ TrackStep

Spec == Init /\ [][Next]_vars

\* The example of the docstrings of ConnectedComponentTwoPass.py (numbers 1
\* and 3 meet, numbers 2 and 4 meet), with a bottom row where 1 and 2 meet
\* later:
\*      . # . . . . . . # .
\*      . # . # . # . # # .
\*      . . # . . . # . # .
\*      . . # . . . . . # .
\*      . . # # # # # # . .
LinkedExample ==
    GridOf(7, 10, {<<1, 1>>, <<1, 8>>,
                   <<2, 1>>, <<2, 3>>, <<2, 5>>, <<2, 7>>, <<2, 8>>,
                   <<3, 2>>, <<3, 6>>, <<3, 8>>,
                   <<4, 2>>, <<4, 8>>,
                   <<5, 2>>, <<5, 3>>, <<5, 4>>, <<5, 5>>, <<5, 6>>, <<5, 7>>})

\* The labelling functions alone, consolidate_tags and trim_tags applied once
\* and then once more
InitTags ==
    /\ pc = "label"
    /\ edges \in EdgeImages(TagRows, TagCols, TagMaxOn) \cup {LinkedExample}
    /\ map = <<>>
    /\ adjacency = <<>>
    /\ MST = <<>>
    /\ InitRest

NextTags == Label \/ Consolidate \/ Trim \/ Again \/ ListCoords

SpecTags == InitTags /\ [][NextTags]_vars

\* The symmetric matrices over n components with the distances of w
Matrix(n, w) ==
    [i \in 0..(n - 1) |-> [j \in 0..(n - 1) |->
        IF i = j THEN 0
        ELSE [start |-> None, end |-> None, dist |-> w[<<Min(i, j), Max(i, j)>>]]]]

\* dist_to_MST alone, on every symmetric matrix
InitMST ==
    /\ pc = "mst"
    /\ edges = <<>>
    /\ map = <<>>
    /\ MST = <<>>
    /\ InitRest
    /\ \E n \in 1..MaxComp :
         \E w \in [{p \in (0..(n - 1)) \X (0..(n - 1)) : p[1] < p[2]} -> 1..MaxDist] :
            adjacency = Matrix(n, w)


NextMST == MSTBegin \/ MSTStep \/ MSTReturn

SpecMST == InitMST /\ [][NextMST]_vars

Coords == (0..MaxCoord) \X (0..MaxCoord)

\* draw_connections alone, on a blank map and one edge between two distinct
\* points
InitDraw ==
    /\ pc = "draw"
    /\ edges = <<>>
    /\ map = ZeroGrid(MaxCoord + 1, MaxCoord + 1)
    /\ adjacency = <<>>
    /\ \E P1 \in Coords : \E P2 \in Coords \ {P1} :
          MST = << [start |-> P1, end |-> P2, dist |-> Dist2(P1, P2)] >>
    /\ InitRest

NextDraw == DrawEdge \/ DrawReturn

SpecDraw == InitDraw /\ [][NextDraw]_vars

\* The subsets of S of at most n elements
RECURSIVE SubsetsUpTo(_, _)
SubsetsUpTo(S, n) ==
    IF n = 0 THEN {{}}
    ELSE LET smaller == SubsetsUpTo(S, n - 1)
         IN smaller \cup {T \cup {x} : T \in smaller, x \in S}

\* The images of height H and width W with at most n pixels on, the outer
\* ring included
AnyImages(H, W, n) ==
    {GridOf(H, W, S) : S \in SubsetsUpTo((0..(H - 1)) \X (0..(W - 1)), n)}

\* find_start alone, on an image of any shape from 3 by 3 up
InitStart ==
    /\ pc = "find_start"
    /\ edges = <<>>
    /\ \E H \in 3..StartRows : \E W \in 3..StartCols :
          map \in AnyImages(H, W, StartMaxOn)
    /\ adjacency = <<>>
    /\ MST = <<>>
    /\ InitRest

NextStart == FindStart

SpecStart == InitStart /\ [][NextStart]_vars

\* p and q are different pixels that touch by a side or a corner
Touch(p, q) == p # q /\ Abs(p[1] - q[1]) <= 1 /\ Abs(p[2] - q[2]) <= 1

\* The sets of at most n cells of Cells that form one 8-connected region,
\* grown one cell at a time
RECURSIVE Regions(_, _)
Regions(Cells, n) ==
    IF n = 0 THEN {{}}
    ELSE LET smaller == Regions(Cells, n - 1)
         IN smaller
            \cup {{x} : x \in Cells}
            \cup {x[1] \cup {x[2]} :
                     x \in {y \in smaller \X Cells : \E z \in y[1] : Touch(z, y[2])}}

\* find_start to tree_to_track alone, on an image whose edge pixels are one
\* region, as draw_connections leaves it
InitTrack ==
    /\ pc = "find_start"
    /\ edges = <<>>
    /\ map \in {GridOf(TrackRows, TrackCols, S) :
                   S \in Regions(InnerCells(TrackRows, TrackCols), TrackMaxOn)}
    /\ adjacency = <<>>
    /\ MST = <<>>
    /\ InitRest

NextTrack ==
    FindStart \/ RunBFS \/ Postorder \/ SortTree \/ TrackBegin \/ TrackStep

SpecTrack == InitTrack /\ [][NextTrack]_vars

\* ------------------------------------------------------------ properties

\* How often x occurs in the sequence s
Count(s, x) == Cardinality({k \in 1..Len(s) : s[k] = x})

Adjacent8(p, q) == p # q /\ Abs(p[1] - q[1]) <= 1 /\ Abs(p[2] - q[2]) <= 1

\* Flood fill over the pixels of On from the pixels of `reached`
RECURSIVE Flood(_, _)
Flood(On, reached) ==
    LET more == reached \cup {q \in On : \E p \in reached : Adjacent8(p, q)}
    IN IF more = reached THEN reached ELSE Flood(On, more)

Nodes == DOMAIN tree

\* The nodes BFS gave at least one child
Interior == {n \in Nodes : \E m \in Nodes : tree[m].parent = n}

Walking == pc \in {"track_loop", "done"}

\* C1 as stated: the track holds the coordinate of every node of the tree
\* exactly once, so it has no duplicate and is no longer than the number of
\* nodes.
C1_EachNodeExactlyOnce ==
    /\ Walking => /\ \A n \in Nodes : Count(TRACK, norm(n)) <= 1
                  /\ Len(TRACK) <= Cardinality(Nodes)
    /\ pc = "done" => \A n \in Nodes : Count(TRACK, norm(n)) = 1

\* C1 as amended: every node is emitted on its first visit and at most once
\* more, and the second time only when the walk has returned to it with no
\* child left, so a leaf and a node that still has children are in the track
\* at most once; at the end every node is in the track, and the track is no
\* longer than the nodes plus the nodes that have children.
C1_EachNodeOnceOrTwice ==
    /\ Walking =>
         /\ \A n \in Nodes :
               /\ Count(TRACK, norm(n)) <= 2
               /\ Count(TRACK, norm(n)) = 2 =>
                     n \in Interior /\ Len(tree[n].children) = 0
               /\ (\E k \in 1..(Len(stack) - 1) : stack[k] = n) =>
                     Count(TRACK, norm(n)) >= 1
         /\ Len(TRACK) <= Cardinality(Nodes) + Cardinality(Interior)
    /\ pc = "done" => \A n \in Nodes : Count(TRACK, norm(n)) >= 1

\* A finished walk over a tree with a leaf and a branch point, in which some
\* node was emitted twice
C1_Witness ==
    /\ pc = "done"
    /\ \E n \in Nodes : Count(TRACK, norm(n)) = 2
    /\ \E n \in Nodes : Count(TRACK, norm(n)) = 1
    /\ \E n \in Nodes : Cardinality({m \in Nodes : tree[m].parent = n}) >= 2
    /\ Len(TRACK) > Cardinality(Nodes)

\* C2: when tree_to_track stops, by its break or on an empty stack, every
\* node of the tree has been emitted.
C2_NoPixelDropped ==
    pc = "done" => \A n \in Nodes : Count(TRACK, norm(n)) >= 1

\* A walk ended by the break, with nodes still on the stack, over a tree
\* where two children of one node tie in farthest-leaf distance
C2_Witness ==
    /\ pc = "done"
    /\ Len(stack) > 0
    /\ \E a \in Nodes : \E b \in Nodes \ {a} :
          /\ tree[a].parent = tree[b].parent
          /\ tree[a].farthestLeaf = tree[b].farthestLeaf

\* C3: when draw_connections has returned on a grid with at least one edge
\* pixel, a flood fill from any non-zero pixel reaches every non-zero pixel.
C3_SingleRegion ==
    (pc = "brighten" /\ OnPixels(edges) # {}) =>
        LET On == OnPixels(map)
        IN \A p \in On : Flood(On, {p}) = On

\* Three components or more were linked, and linking them turned on pixels
\* that were off
C3_Witness ==
    /\ pc = "brighten"
    /\ Len(components) >= 3
    /\ \E p \in OnPixels(map) : edges[p[1]][p[2]] = 0

\* C10: on a grid with no edge pixel the pipeline raises no exception: it
\* indexes no element that does not exist and does not use the -1 of
\* find_start as a point.
C10_EmptyGridNoException ==
    OnPixels(edges) = {} => err = "none"

\* The vertices of the component graph, and its edges as pairs i < j
Vertices == 0..(Len0(adjacency) - 1)
Pairs == {p \in Vertices \X Vertices : p[1] < p[2]}

\* The vertices reached from those of R along the edges of E, in either
\* direction
RECURSIVE GraphReach(_, _)
GraphReach(E, R) ==
    LET more == R \cup {v \in Vertices :
                          \E e \in E : \/ (e[1] \in R /\ e[2] = v)
                                       \/ (e[2] \in R /\ e[1] = v)}
    IN IF more = R THEN R ELSE GraphReach(E, more)

\* The vertices visited before the k-th edge was chosen
VisitedBefore(k) == {0} \cup {picked[h][2] : h \in 1..(k - 1)}

Unordered(e) == <<Min(e[1], e[2]), Max(e[1], e[2])>>

\* C4: dist_to_MST returns exactly n - 1 edges; each joins a component
\* already visited to one not yet visited, so the edges reach every component
\* from component 0 and close no cycle.
C4_SpanningTree ==
    pc \in {"mst_loop", "draw"} =>
        /\ Len(MST) = numEdges
        /\ Len(picked) = numEdges
        /\ \A k \in 1..Len(picked) :
              /\ picked[k][1] \in VisitedBefore(k)
              /\ picked[k][2] \in Vertices \ VisitedBefore(k)
              /\ MST[k] = adjacency[picked[k][1]][picked[k][2]]
        /\ pc = "draw" =>
              /\ Len(MST) = Len0(adjacency) - 1
              /\ Cardinality({Unordered(picked[k]) : k \in 1..Len(picked)})
                    = Len0(adjacency) - 1
              /\ GraphReach({picked[k] : k \in 1..Len(picked)}, {0}) = Vertices

\* A finished run on four components or more whose tree is not a star
\* around component 0
C4_Witness ==
    /\ pc = "draw"
    /\ Len0(adjacency) >= 4
    /\ \E k \in 1..Len(picked) : picked[k][1] # 0

RECURSIVE PairsWeight(_)
PairsWeight(T) ==
    IF T = {} THEN 0
    ELSE LET e == CHOOSE x \in T : TRUE
         IN adjacency[e[1]][e[2]].dist + PairsWeight(T \ {e})

RECURSIVE SeqWeight(_)
SeqWeight(es) == IF Len(es) = 0 THEN 0 ELSE Head(es).dist + SeqWeight(Tail(es))

\* The spanning trees of the complete graph over the components
SpanningTrees ==
    {T \in SUBSET Pairs : /\ Cardinality(T) = Len0(adjacency) - 1
                          /\ GraphReach(T, {0}) = Vertices}

\* The pairs that cross from the visited to the unvisited components before
\* the k-th edge is chosen
Crossing(k) == {p \in Vertices \X Vertices :
                   p[1] \in VisitedBefore(k) /\ p[2] \notin VisitedBefore(k)}

LexLess(p, q) == p[1] < q[1] \/ (p[1] = q[1] /\ p[2] < q[2])

\* C5: the edges dist_to_MST returns have the least total distance among the
\* spanning trees of the component graph, and each edge is the first pair, in
\* ascending (visited i, unvisited j) order, among the crossing pairs of least
\* distance.
C5_MinimumTotal ==
    pc = "draw" =>
        /\ \A T \in SpanningTrees : SeqWeight(MST) <= PairsWeight(T)
        /\ \A k \in 1..Len(picked) : \A p \in Crossing(k) :
              \/ adjacency[p[1]][p[2]].dist > MST[k].dist
              \/ /\ adjacency[p[1]][p[2]].dist = MST[k].dist
                 /\ (p = picked[k] \/ LexLess(picked[k], p))

\* A finished run on four components or more in which an edge was chosen
\* among several crossing pairs of the same least distance, and in which some
\* spanning tree is heavier than the one returned
C5_Witness ==
    /\ pc = "draw"
    /\ Len0(adjacency) >= 4
    /\ \E k \in 1..Len(picked) : \E p \in Crossing(k) :
          p # picked[k] /\ adjacency[p[1]][p[2]].dist = MST[k].dist
    /\ \E T \in SpanningTrees : SeqWeight(MST) < PairsWeight(T)

\* The dictionary number_connected_components recorded for the image
RawTags == number_connected_components(edges).tags

\* The numbers linked to those of R through the recorded equivalences, in
\* either direction
RECURSIVE IdReach(_, _)
IdReach(raw, R) ==
    LET more == R \cup {b \in DOMAIN raw : \E a \in R : b \in raw[a] \/ a \in raw[b]}
    IN IF more = R THEN R ELSE IdReach(raw, more)

Class(raw, id) == IdReach(raw, {id})

SetMax(S) == CHOOSE x \in S : \A y \in S : x >= y

\* C6 as stated: after consolidate_tags and trim_tags every number maps to
\* the empty set or to one strictly smaller number that is the root of its
\* class, the smallest number of the class.
C6_RootIsSmallest ==
    pc = "list" =>
        LET raw == RawTags
        IN \A id \in DOMAIN tags :
            LET root == SetMin(Class(raw, id))
            IN IF id = root THEN tags[id] = {}
               ELSE tags[id] = {root} /\ root < id /\ tags[root] = {}

\* C6 as amended: after consolidate_tags and trim_tags every number maps to
\* the empty set or to one strictly larger number that is the root of its
\* class, the largest number of the class, so every other number of the class
\* reaches the root in one hop.
C6_RootIsLargest ==
    pc = "list" =>
        LET raw == RawTags
        IN \A id \in DOMAIN tags :
            LET root == SetMax(Class(raw, id))
            IN IF id = root THEN tags[id] = {}
               ELSE tags[id] = {root} /\ root > id /\ tags[root] = {}

\* A trimmed dictionary with a class of three numbers or more
C6_Witness ==
    /\ pc = "list"
    /\ round = 1
    /\ \E id \in DOMAIN tags : Cardinality(Class(RawTags, id)) >= 3 /\ tags[id] # {}

\* C7: consolidate_tags then trim_tags, applied to their own result, give
\* that result again.
C7_Idempotent ==
    (pc = "list" /\ round = 2) => tags = once

\* The second application has ended on a dictionary with a class of three
\* numbers or more, which the first application had to rewrite
C7_Witness ==
    /\ pc = "list"
    /\ round = 2
    /\ \E id \in DOMAIN tags : Cardinality(Class(RawTags, id)) >= 3
    /\ RawTags # once
    /\ tags = once

\* The lists of `components` in which the pixel p occurs
Owners(p) ==
    {k \in 1..Len(components) :
        \E h \in 1..Len(components[k].coords) : components[k].coords[h] = p}

\* C8: after list_component_coords every edge pixel is in exactly one
\* component list, the lists hold edge pixels only, and two edge pixels are
\* in the same list exactly when a path of 8-connected edge pixels joins them.
C8_ListsAreRegions ==
    pc = "adjacency" =>
        LET On == OnPixels(edges)
            owner == [p \in On |-> Owners(p)]
        IN /\ \A p \in On :
                 /\ Cardinality(owner[p]) = 1
                 /\ \A k \in owner[p] : Count(components[k].coords, p) = 1
           /\ \A k \in 1..Len(components) :
                 /\ Len(components[k].coords) >= 1
                 /\ \A h \in 1..Len(components[k].coords) : components[k].coords[h] \in On
           /\ \A p \in On :
                 LET region == Flood(On, {p})
                 IN \A q \in On : (owner[p] = owner[q]) <=> (q \in region)

\* The example image: 1~3 and 2~4 are recorded, then 1~2, and the four
\* numbers end in one list
C8_Witness ==
    /\ pc = "adjacency"
    /\ edges = LinkedExample
    /\ RawTags = << {3}, {1}, {}, {2} >>
    /\ Len(components) = 1

\* C9: draw_connections on one edge from P1 to P2 turns on exactly
\* max(|dx|, |dy|) + 1 cells: P1, P2 and one cell for every coordinate of the
\* dominant axis between them, neighbours on that axis differing by at most 1
\* on the other; (0,0)->(5,0) gives the six cells of that column of rows and
\* (0,0)->(3,3) the four cells of the diagonal.
C9_UnbrokenChain ==
    pc = "brighten" =>
        LET P1 == MST[1].start
            P2 == MST[1].end
            On == OnPixels(map)
            adx == Abs(P2[1] - P1[1])
            ady == Abs(P2[2] - P1[2])
            ax == IF ady > adx THEN 2 ELSE 1
            mi == 3 - ax
        IN /\ Cardinality(On) = Max(adx, ady) + 1
           /\ P1 \in On
           /\ P2 \in On
           /\ \A v \in Min(P1[ax], P2[ax])..Max(P1[ax], P2[ax]) :
                 Cardinality({p \in On : p[ax] = v}) = 1
           /\ \A p \in On : \A q \in On :
                 q[ax] = p[ax] + 1 => Abs(q[mi] - p[mi]) <= 1
           /\ \A p \in On : map[p[1]][p[2]] = 255
           /\ (P1 = <<0, 0>> /\ P2 = <<5, 0>>) => On = {<<k, 0>> : k \in 0..5}
           /\ (P1 = <<0, 0>> /\ P2 = <<3, 3>>) => On = {<<k, k>> : k \in 0..3}

\* A steep line drawn from its far end: the axes are exchanged, the end
\* points swapped and the minor axis stepped twice
C9_Witness ==
    /\ pc = "brighten"
    /\ MST[1].start = <<2, 5>>
    /\ MST[1].end = <<0, 0>>
    /\ Cardinality(OnPixels(map)) = 6
    /\ map[1][2] = 255

\* The ring of the pixel p inside the outer ring of an H by W image: 0 for
\* the pixels next to the outer ring, 1 for those next to ring 0, ...
RingOf(H, W, p) == Min(Min(p[1] - 1, H - 2 - p[1]), Min(p[2] - 1, W - 2 - p[2]))

\* The place of p on its ring, counted clockwise from the top left corner of
\* the ring: along the top row, down the right column, back along the bottom
\* row, up the left column
ClockwisePlace(H, W, p) ==
    LET d == RingOf(H, W, p)
        top == 1 + d
        left == 1 + d
        bottom == H - 2 - d
        right == W - 2 - d
    IN IF p[1] = top THEN p[2] - left
       ELSE IF p[2] = right THEN (right - left) + (p[1] - top)
       ELSE IF p[1] = bottom THEN (right - left) + (bottom - top) + (right - p[2])
       ELSE 2 * (right - left) + (bottom - top) + (bottom - p[1])

\* p comes before q in the clockwise inward spiral
SpiralBefore(H, W, p, q) ==
    \/ RingOf(H, W, p) < RingOf(H, W, q)
    \/ /\ RingOf(H, W, p) = RingOf(H, W, q)
       /\ ClockwisePlace(H, W, p) < ClockwisePlace(H, W, q)

\* The pixels of `map` that are on inside the outer ring
InnerOn == OnPixels(map) \cap InnerCells(Len0(map), Len0(map[0]))

\* C11: find_start returns the first pixel, in clockwise inward spiral order,
\* that is on inside the outer ring, and the sentinel -1 exactly when no
\* pixel inside the outer ring is on.
C11_FirstOnSpiral ==
    pc = "BFS" =>
        IF InnerOn = {} THEN start = Sentinel
        ELSE /\ start \in InnerOn
             /\ \A q \in InnerOn \ {start} :
                   SpiralBefore(Len0(map), Len0(map[0]), start, q)

\* find_start has returned the pixel of the left column of the first ring,
\* the last the spiral visits on that ring, of an image that is not square
\* whose second ring has a pixel on
C11_Witness ==
    /\ pc = "BFS"
    /\ Len0(map) = 5
    /\ Len0(map[0]) = 6
    /\ start = <<2, 1>>
    /\ map[2][2] > 0

\* The farthest-leaf distance the children of node n give it: 0 for a leaf,
\* 1 + the largest of the children's values otherwise
FarthestFromChildren(n) ==
    IF Len(tree[n].children) = 0 THEN 0
    ELSE 1 + SetMax({tree[tree[n].children[k]].farthestLeaf :
                        k \in 1..Len(tree[n].children)})

\* The tree has been sorted and the walk may have begun
Sorted == pc \in {"tree_to_track", "track_loop", "done"}

\* C12 as stated: after postorder and sort_tree the farthest-leaf distances
\* are 0 for leaves and 1 + the largest child value for interior nodes, every
\* children list is in ascending order of farthest-leaf distance, and the
\* child tree_to_track descends into, the last one left, is the longest of
\* those left.
C12_ChildrenAscending ==
    /\ pc = "tree_to_track" =>
          \A n \in Nodes : tree[n].farthestLeaf = FarthestFromChildren(n)
    /\ Sorted =>
          \A n \in Nodes : \A k \in 1..(Len(tree[n].children) - 1) :
              tree[tree[n].children[k]].farthestLeaf
                  <= tree[tree[n].children[k + 1]].farthestLeaf
    /\ pc = "track_loop" =>
          \A k \in 2..Len(stack) : \A h \in 1..Len(tree[stack[k - 1]].children) :
              tree[stack[k]].farthestLeaf
                  >= tree[tree[stack[k - 1]].children[h]].farthestLeaf

\* C12 as amended: after postorder and sort_tree the farthest-leaf distances
\* are 0 for leaves and 1 + the largest child value for interior nodes, every
\* children list is in descending order of farthest-leaf distance, and the
\* child tree_to_track descends into, the last one left, is the shortest of
\* those left, so that the longest subtree of a node is walked last.
C12_ChildrenDescending ==
    /\ pc = "tree_to_track" =>
          \A n \in Nodes : tree[n].farthestLeaf = FarthestFromChildren(n)
    /\ Sorted =>
          \A n \in Nodes : \A k \in 1..(Len(tree[n].children) - 1) :
              tree[tree[n].children[k]].farthestLeaf
                  >= tree[tree[n].children[k + 1]].farthestLeaf
    /\ pc = "track_loop" =>
          \A k \in 2..Len(stack) : \A h \in 1..Len(tree[stack[k - 1]].children) :
              tree[stack[k]].farthestLeaf
                  <= tree[tree[stack[k - 1]].children[h]].farthestLeaf

\* sort_tree has moved the longer of two children of the root, found second
\* by BFS, in front of the shorter one, and the walk has entered the shorter
\* one while the longer one is left
C12_Witness ==
    /\ pc = "track_loop"
    /\ start = <<1, 1>>
    /\ Len(stack) = 2
    /\ stack[2] = <<1, 2>>
    /\ tree[<<1, 1>>].children = << <<2, 1>> >>
    /\ tree[<<2, 1>>].farthestLeaf > tree[<<1, 2>>].farthestLeaf

\* Chebyshev distance of two coordinates
Chebyshev(p, q) == Max(Abs(p[1] - q[1]), Abs(p[2] - q[2]))

\* The tree node of the coordinate c of the track
NodeAt(c) == CHOOSE n \in Nodes : norm(n) = c

\* C13: two coordinates that follow one another in the track are those of a
\* node and its parent, at Chebyshev distance 1, or of two children of one
\* node, the branch point the walk passed without emitting it, at Chebyshev
\* distance 2 at most.
C13_StepsAtMostTwo ==
    Walking =>
        \A k \in 1..(Len(TRACK) - 1) :
            LET a == NodeAt(TRACK[k])
                b == NodeAt(TRACK[k + 1])
            IN /\ Chebyshev(TRACK[k], TRACK[k + 1]) <= 2
               /\ \/ /\ tree[a].parent = b \/ tree[b].parent = a
                     /\ Chebyshev(TRACK[k], TRACK[k + 1]) = 1
                  \/ /\ tree[a].parent = tree[b].parent
                     /\ tree[a].parent # None
                     /\ a # b

\* A finished walk with a step of distance 2 across a branch point, a step
\* of distance 1, and a node emitted a second time on the way back
C13_Witness ==
    /\ pc = "done"
    /\ \E k \in 1..(Len(TRACK) - 1) : Chebyshev(TRACK[k], TRACK[k + 1]) = 2
    /\ \E k \in 1..(Len(TRACK) - 1) : Chebyshev(TRACK[k], TRACK[k + 1]) = 1
    /\ \E n \in Nodes : Count(TRACK, norm(n)) = 2
    /\ \E n \in Nodes : \E m \in Nodes : Chebyshev(n, m) >= 3

====
